---- MODULE Spec2Model ----
(***************************************************************************)
(* A model of msb (prodbysky/msb): the DSL parser, the target graph, the   *)
(* staleness evaluator and the build executor of src/src/target.rs, driven *)
(* by main of src/src/main.rs.                                             *)
(*                                                                         *)
(* Source text is a TLA+ string, read character by character with SubSeq,  *)
(* the way the nom combinators consume a &str.  A parser result is a       *)
(* record [ok, rest, val]: nom's IResult with the remaining input.         *)
(***************************************************************************)
EXTENDS Integers, Sequences, FiniteSets, TLC

(***************************************************************************)
(* Bounds of the model.                                                    *)
(***************************************************************************)
\* The latest modification time a file has before the program starts.
MaxInitTime == 1
\* The clock stops advancing here: a process exiting at MaxTime no longer
\* writes a file.
MaxTime == 6
\* The deepest recursion of Target::build the model follows.
MaxDepth == 4

(***************************************************************************)
(* Characters and string helpers.                                          *)
(***************************************************************************)
\* char::is_whitespace / nom's multispace on the characters sources use
Whitespace == {" ", "\t", "\n", "\r"}

AlphaNumeric ==
    {"a", "b", "c", "d", "e", "f", "g", "h", "i", "j", "k", "l", "m",
     "n", "o", "p", "q", "r", "s", "t", "u", "v", "w", "x", "y", "z",
     "A", "B", "C", "D", "E", "F", "G", "H", "I", "J", "K", "L", "M",
     "N", "O", "P", "Q", "R", "S", "T", "U", "V", "W", "X", "Y", "Z",
     "0", "1", "2", "3", "4", "5", "6", "7", "8", "9"}

\* e's value, computed once, handed to F
Let(e, F(_)) == CHOOSE y \in {F(x) : x \in {e}} : TRUE

CharAt(s, k) == SubSeq(s, k, k)
Take(s, n) == SubSeq(s, 1, n)
Drop(s, n) == SubSeq(s, n + 1, Len(s))

\* the length of the longest prefix of s made of characters of set S
LenWhileIn(s, S) ==
    Let(s, LAMBDA str :
        CHOOSE n \in 0..Len(str) :
            /\ \A k \in 1..n : CharAt(str, k) \in S
            /\ (n = Len(str) \/ CharAt(str, n + 1) \notin S))

\* the length of the longest prefix of s made of characters outside S
LenWhileNotIn(s, S) ==
    Let(s, LAMBDA str :
        CHOOSE n \in 0..Len(str) :
            /\ \A k \in 1..n : CharAt(str, k) \notin S
            /\ (n = Len(str) \/ CharAt(str, n + 1) \in S))

\* s without its first LenWhileIn(s, S) characters
DropWhileIn(s, S) == Let(s, LAMBDA str : Drop(str, LenWhileIn(str, S)))

(***************************************************************************)
(* nom combinators.  A parser result is [ok, rest, val]; Then(r, K) is the *)
(* `?` of the source: r's error, or K of r's remaining input and value.    *)
(***************************************************************************)
PErr == [ok |-> FALSE, rest |-> "", val |-> <<>>]
POk(rest, val) == [ok |-> TRUE, rest |-> rest, val |-> val]

Then(r, K(_)) == CHOOSE y \in {IF x.ok THEN K(x) ELSE PErr : x \in {r}} : TRUE

\* the prefix of n characters as the value, the rest as the remaining input
Split(s, n) == POk(Drop(s, n), Take(s, n))

tag(t, input) ==
    IF Len(input) >= Len(t) /\ Take(input, Len(t)) = t
    THEN Split(input, Len(t))
    ELSE PErr

multispace0(input) ==
    Let(input, LAMBDA i : Split(i, LenWhileIn(i, Whitespace)))

\* a run of at least one character: Split at n, an error when n is 0
Split1(s, n) == Let(n, LAMBDA k : IF k >= 1 THEN Split(s, k) ELSE PErr)

multispace1(input) ==
    Let(input, LAMBDA i : Split1(i, LenWhileIn(i, Whitespace)))

alphanumeric1(input) ==
    Let(input, LAMBDA i : Split1(i, LenWhileIn(i, AlphaNumeric)))

\* take_until(pat) for a one-character pattern: everything before the first
\* occurrence, which stays in the remaining input; an error without one
take_until(pat, input) ==
    Let(input, LAMBDA i :
        Let(LenWhileNotIn(i, {pat}), LAMBDA n :
            IF n < Len(i) THEN Split(i, n) ELSE PErr))

(***************************************************************************)
(* The DSL parser.                                                         *)
(***************************************************************************)
identifier(input) == alphanumeric1(input)

file_identifier(input) ==
    Let(input, LAMBDA i :
        Split1(i, LenWhileNotIn(i, Whitespace \cup {")"})))

target_identifier(input) ==
    Let(input, LAMBDA i :
        Split1(i, LenWhileNotIn(i, Whitespace \cup {",", ")"})))

\* delimited(multispace0, tag(","), multispace0)
comma_separator(input) ==
    Then(multispace0(input), LAMBDA a :
    Then(tag(",", a.rest), LAMBDA b :
    Then(multispace0(b.rest), LAMBDA c : POk(c.rest, b.val))))

\* the separator and the element of the two kinds of list: "files" is
\* separated_list0(multispace1, file_identifier), "targets" is
\* separated_list0(comma_separator, target_identifier)
list_separator(kind, input) ==
    IF kind = "files" THEN multispace1(input) ELSE comma_separator(input)

list_element(kind, input) ==
    IF kind = "files" THEN file_identifier(input) ELSE target_identifier(input)

\* the loop of separated_list0 after the first element: a separator or an
\* element that does not parse ends the list before the separator
RECURSIVE separated_list_rest(_, _, _)
separated_list_rest(kind, input, res) ==
    Let(list_separator(kind, input), LAMBDA s :
        IF ~s.ok THEN POk(input, res)
        ELSE Let(list_element(kind, s.rest), LAMBDA e :
                 IF ~e.ok THEN POk(input, res)
                 ELSE IF Len(e.rest) = Len(input) THEN PErr
                 ELSE separated_list_rest(kind, e.rest, Append(res, e.val))))

separated_list0(kind, input) ==
    Let(list_element(kind, input), LAMBDA e :
        IF ~e.ok THEN POk(input, <<>>)
        ELSE separated_list_rest(kind, e.rest, <<e.val>>))

\* delimited(tag(open), separated_list0(..), tag(")"))
parse_list(open, kind, input) ==
    Then(tag(open, input), LAMBDA a :
    Then(separated_list0(kind, a.rest), LAMBDA l :
    Then(tag(")", l.rest), LAMBDA c : POk(c.rest, l.val))))

parse_outputs(input) == parse_list("outputs(", "files", input)

parse_files(input) == parse_list("files(", "files", input)

parse_target_deps(input) == parse_list("targets(", "targets", input)

parse_dependencies(input) ==
    Then(tag("[", input), LAMBDA a :
    Then(parse_files(a.rest), LAMBDA f :
    Then(multispace1(f.rest), LAMBDA w :
    Then(parse_target_deps(w.rest), LAMBDA t :
    Then(tag("]", t.rest), LAMBDA c : POk(c.rest, <<f.val, t.val>>))))))

\* str::trim
trim(s) ==
    Let(DropWhileIn(s, Whitespace), LAMBDA a :
        Take(a, CHOOSE k \in 0..Len(a) :
                   /\ \A j \in (k + 1)..Len(a) : CharAt(a, j) \in Whitespace
                   /\ (k = 0 \/ CharAt(a, k) \notin Whitespace)))

\* str::lines: the pieces between line feeds, no last empty piece
RECURSIVE lines(_)
lines(s) ==
    Let(s, LAMBDA str :
        IF Len(str) = 0 THEN <<>>
        ELSE Let(LenWhileNotIn(str, {"\n"}), LAMBDA n :
                 <<Take(str, n)>> \o lines(Drop(str, n + 1))))

\* .map(str::trim).filter(|line| !line.is_empty())
RECURSIVE trimmed_nonempty(_)
trimmed_nonempty(ls) ==
    Let(ls, LAMBDA l :
        IF l = <<>> THEN <<>>
        ELSE Let(trim(Head(l)), LAMBDA line :
                 (IF Len(line) = 0 THEN <<>> ELSE <<line>>)
                     \o trimmed_nonempty(Tail(l))))

parse_commands(input) ==
    Then(multispace0(input), LAMBDA a :
    Then(tag("{", a.rest), LAMBDA b :
    Then(multispace0(b.rest), LAMBDA c :
    Then(take_until("}", c.rest), LAMBDA content :
    Then(multispace0(content.rest), LAMBDA d :
    Then(tag("}", d.rest), LAMBDA e :
        POk(e.rest, trimmed_nonempty(lines(content.val)))))))))

\* Target::new
Target(name, outputs, files, target_deps, commands) ==
    [name |-> name, outputs |-> outputs, file_dependencies |-> files,
     target_dependencies |-> target_deps, commands |-> commands]

\* preceded(multispace1, parse_outputs)
spaced_outputs(input) ==
    Then(multispace1(input), LAMBDA w : parse_outputs(w.rest))

\* opt(p) on p's result r: None, with the input untouched, for an error
opt(r, input) ==
    Let(r, LAMBDA x :
        IF x.ok THEN POk(x.rest, [some |-> TRUE, v |-> x.val])
        ELSE POk(input, [some |-> FALSE, v |-> <<>>]))

\* outputs_or_name with the default of a Vec for the target's name
\* (unwrap_or_default): no clause, no outputs
outputs_or_default(outputs, name) ==
    IF outputs.some THEN outputs.v ELSE <<>>

\* outputs.unwrap_or_else(|| vec![name.to_string()])
outputs_or_name(outputs, name) ==
    IF outputs.some THEN outputs.v ELSE <<name>>

parse_target(input) ==
    Then(multispace0(input), LAMBDA a :
    Then(tag("target", a.rest), LAMBDA b :
    Then(multispace1(b.rest), LAMBDA c :
    Then(identifier(c.rest), LAMBDA name :
    Then(opt(spaced_outputs(name.rest), name.rest), LAMBDA outputs :
    Then(multispace1(outputs.rest), LAMBDA d :
    Then(parse_dependencies(d.rest), LAMBDA deps :
    Then(multispace0(deps.rest), LAMBDA e :
    Then(parse_commands(e.rest), LAMBDA commands :
        POk(commands.rest,
            Target(name.val, outputs_or_name(outputs.val, name.val),
                   deps.val[1], deps.val[2], commands.val)))))))))))

\* many0(parse_target): the targets parsed until the first one that does
\* not parse; an error only if a target parsed without consuming input
RECURSIVE many0_parse_target(_, _)
many0_parse_target(input, acc) ==
    Let(parse_target(input), LAMBDA r :
        IF ~r.ok THEN POk(input, acc)
        ELSE IF Len(r.rest) = Len(input) THEN PErr
        ELSE many0_parse_target(r.rest, Append(acc, r.val)))

\* Option<Makefile>: [some |-> FALSE] is None
parse_makefile(input) ==
    Let(many0_parse_target(input, <<>>), LAMBDA r :
        IF ~r.ok THEN [some |-> FALSE, targets |-> <<>>]
        ELSE [some |-> TRUE, targets |-> r.val])

(***************************************************************************)
(* The target graph and the staleness evaluator.                           *)
(***************************************************************************)
\* None of an Option<SystemTime>: a file that is absent or unreadable
NoTime == -1
\* None of ExitStatus::code(): the process was ended by a signal
NoCode == -1

\* Makefile::get_target: the position of the first target of that name,
\* 0 for None
get_target(targets, name) ==
    IF \E i \in 1..Len(targets) : targets[i].name = name
    THEN CHOOSE i \in 1..Len(targets) :
            /\ targets[i].name = name
            /\ \A j \in 1..(i - 1) : targets[j].name # name
    ELSE 0

\* fs::metadata(path).modified() on file system f
modified(f, path) == IF path \in DOMAIN f THEN f[path] ELSE NoTime

\* the loop of get_min_output_time from the i-th output on
RECURSIVE min_output_time_from(_, _, _, _)
min_output_time_from(f, outputs, i, min_time) ==
    IF i > Len(outputs) THEN min_time
    ELSE LET m == modified(f, outputs[i])
         IN  IF m = NoTime THEN NoTime
             ELSE min_output_time_from(f, outputs, i + 1,
                     IF min_time = NoTime THEN m
                     ELSE IF m < min_time THEN m ELSE min_time)

\* get_min_output_time with an unreadable output passed over instead of
\* ending the loop with None: the oldest of the outputs that exist
RECURSIVE min_present_output_time_from(_, _, _, _)
min_present_output_time_from(f, outputs, i, min_time) ==
    IF i > Len(outputs) THEN min_time
    ELSE LET m == modified(f, outputs[i])
         IN  min_present_output_time_from(f, outputs, i + 1,
                 IF m = NoTime THEN min_time
                 ELSE IF min_time = NoTime THEN m
                 ELSE IF m < min_time THEN m ELSE min_time)

get_min_present_output_time(f, t) ==
    min_present_output_time_from(f, t.outputs, 1, NoTime)

get_min_output_time(f, t) == min_output_time_from(f, t.outputs, 1, NoTime)

\* file_deps_older with >= for >: a file dependency as old as the oldest
\* output makes the target stale
file_deps_strictly_older(f, t, target_mod_time) ==
    \A i \in 1..Len(t.file_dependencies) :
        LET dep_mod_time == modified(f, t.file_dependencies[i])
        IN  dep_mod_time # NoTime /\ ~(dep_mod_time >= target_mod_time)

\* the file dependency loop of is_up_to_date: FALSE is its `return false`
file_deps_older(f, t, target_mod_time) ==
    \A i \in 1..Len(t.file_dependencies) :
        LET dep_mod_time == modified(f, t.file_dependencies[i])
        IN  dep_mod_time # NoTime /\ ~(dep_mod_time > target_mod_time)

\* the target dependency loop of is_up_to_date
target_deps_older(f, targets, t, target_mod_time) ==
    \A i \in 1..Len(t.target_dependencies) :
        LET d == get_target(targets, t.target_dependencies[i])
        IN  /\ d # 0
            /\ LET dep_mod_time == get_min_output_time(f, targets[d])
               IN  dep_mod_time # NoTime /\ ~(dep_mod_time > target_mod_time)

is_up_to_date(f, targets, t) ==
    LET target_mod_time == get_min_output_time(f, t)
    IN  /\ target_mod_time # NoTime
        /\ file_deps_older(f, t, target_mod_time)
        /\ target_deps_older(f, targets, t, target_mod_time)

\* str::split_whitespace
RECURSIVE split_whitespace(_)
split_whitespace(s) ==
    Let(DropWhileIn(s, Whitespace), LAMBDA a :
        IF Len(a) = 0 THEN <<>>
        ELSE Let(LenWhileNotIn(a, Whitespace), LAMBDA n :
                 <<Take(a, n)>> \o split_whitespace(Drop(a, n))))

(***************************************************************************)
(* The build descriptions the program is run on.                           *)
(***************************************************************************)
SrcEndToEnd ==
    "target a [ files() targets() ] { echo build-a }\ntarget main [ files() targets(a) ] { echo build-main }"

SrcTight ==
    "target a [files() targets()] { echo build-a }\ntarget main [files() targets(a)] { echo build-main }"

SrcChain ==
    "target c [files(x) targets()] { cc c }\ntarget b [files() targets(c)] { cc b }\ntarget main [files() targets(b)] { cc main }"

\* two dependencies in a row, the first with two commands
SrcSiblings ==
    "target a [files() targets()] {\n  cc a1\n  cc a2\n}\ntarget b [files() targets()] { cc b }\ntarget main [files(s) targets(a, b)] { ld main }"

\* explicit outputs clauses: two outputs, and none
SrcOutputs ==
    "target a outputs(x y) [files(s) targets()] { gen x y }\ntarget main outputs() [files() targets(a)] { run }"

\* a target reached along two paths
SrcDiamond ==
    "target d [files() targets()] { cc d }\ntarget l [files() targets(d)] { cc l }\ntarget r [files() targets(d)] { cc r }\ntarget main [files() targets(l, r)] { ld main }"

\* the second dependency of main is not declared
SrcMissingDep ==
    "target a [files() targets()] { cc a }\ntarget b [files() targets()] { cc b }\ntarget main [files() targets(a, zz, b)] { ld main }"

\* main and a depend on each other
SrcCycle ==
    "target a [files() targets(main)] { cc a }\ntarget main [files() targets(a)] { ld main }"

\* main depends on a target with two outputs
SrcMultiOut ==
    "target a outputs(x y) [files() targets()] { gen x y }\ntarget main [files() targets(a)] { ld main }"

\* main and a depend on each other, and main on x before a
SrcCycleSide ==
    "target x [files() targets()] { cc x }\ntarget a [files() targets(main)] { cc a }\ntarget main [files() targets(x, a)] { ld main }"

\* the block of the second declaration is not closed
SrcUnclosed ==
    "target a [files() targets()] { echo a }\ntarget main [files() targets(a)] { echo main"

\* the first declaration has no dependency block
SrcNoDeps ==
    "target a { echo a }\ntarget main [files() targets()] { echo main }"

\* the second declaration has no dependency block
SrcNoDepsLater ==
    "target main [files() targets()] { echo main }\ntarget a { echo a }"

MalformedSources == {SrcUnclosed, SrcNoDeps, SrcNoDepsLater}

Sources ==
    {SrcEndToEnd, SrcTight, SrcChain, SrcSiblings, SrcOutputs, SrcDiamond,
     SrcMissingDep, SrcCycle, SrcMultiOut, SrcCycleSide} \cup MalformedSources

Requests == {"main", "a", "missing"}

\* the paths a build description names: the files the build looks at
RECURSIVE Range(_)
Range(seq) == IF seq = <<>> THEN {} ELSE {Head(seq)} \cup Range(Tail(seq))

FilesOf(src) ==
    LET ts == parse_makefile(src).targets
    IN  UNION {Range(ts[i].outputs) \cup Range(ts[i].file_dependencies) :
               i \in 1..Len(ts)}

(***************************************************************************)
(* State.                                                                  *)
(***************************************************************************)
VARIABLES
    source,         \* the content of the build file (input_content)
    target,         \* config.target
    print_targets,  \* config.print_targets
    pc,             \* where main is
    makefile,       \* the parsed Makefile's targets
    stack,          \* the frames of Target::build, the innermost last
    procs,          \* every process spawned so far, in spawn order
    fs,             \* path -> modification time of the files that exist
    now,            \* the clock processes stamp the files they write with
    result,         \* what Makefile::build returned
    log,            \* the visits, spawns and returns of Target::build so far
    exit            \* what main returned

vars == <<source, target, print_targets, pc, makefile, stack, procs, fs, now,
          result, log, exit>>

\* a BuildResult: kind "none" while the build has not returned, "Ok", or
\* the variant of BuildError with its fields
Res(kind, target_name, dependency_name, cmd) ==
    [kind |-> kind, target_name |-> target_name,
     dependency_name |-> dependency_name, cmd |-> cmd]

NoResult == Res("none", "", "", "")
OkResult == Res("Ok", "", "", "")

\* a frame of Target::build on target t (a position in makefile), its v-th
\* invocation: at "deps" in the dependency loop before dependency dep, at
\* "spawn" before command cmd, at "wait" before child w of children
Frame(t, v) ==
    [t |-> t, v |-> v, at |-> "deps", dep |-> 1, cmd |-> 1, w |-> 1,
     children |-> <<>>]

Top == stack[Len(stack)]
SetTop(f) == [stack EXCEPT ![Len(stack)] = f]
Pop == SubSeq(stack, 1, Len(stack) - 1)

Event(ev, f) == [ev |-> ev, t |-> f.t, v |-> f.v]

Visits == Cardinality({i \in 1..Len(log) : log[i].ev = "visit"})

Init ==
    /\ source \in Sources
    /\ target \in Requests
    /\ print_targets \in BOOLEAN
    /\ pc = "parse"
    /\ makefile = <<>>
    /\ stack = <<>>
    /\ procs = <<>>
    /\ fs \in [FilesOf(source) -> {NoTime} \cup 0..MaxInitTime]
    /\ now = MaxInitTime
    /\ result = NoResult
    /\ log = <<>>
    /\ exit = "none"

(***************************************************************************)
(* main                                                                    *)
(***************************************************************************)
\* main.rs 19-21: parse the build file
Parse ==
    /\ pc = "parse"
    /\ LET m == parse_makefile(source)
       IN  IF m.some
           THEN /\ makefile' = m.targets
                /\ pc' = IF print_targets THEN "list" ELSE "build"
                /\ exit' = exit
           ELSE /\ makefile' = makefile
                /\ pc' = "done"
                /\ exit' = "FailedToParseBuildFile"
    /\ UNCHANGED <<source, target, print_targets, stack, procs, fs, now,
                   result, log>>

\* main.rs 23-45: list the targets and return
ListTargets ==
    /\ pc = "list"
    /\ pc' = "done"
    /\ exit' = "Ok"
    /\ UNCHANGED <<source, target, print_targets, makefile, stack, procs, fs,
                   now, result, log>>

\* main.rs 46-48: the value of targets.build(..) is dropped
MainReturn ==
    /\ pc = "return"
    /\ pc' = "done"
    /\ exit' = "Ok"
    /\ UNCHANGED <<source, target, print_targets, makefile, stack, procs, fs,
                   now, result, log>>

(***************************************************************************)
(* The build executor.                                                     *)
(***************************************************************************)
\* an error leaves every frame through `?`: Makefile::build returns it
Raise(err, f) ==
    /\ stack' = <<>>
    /\ result' = err
    /\ log' = Append(log, Event("err", f))
    /\ pc' = "return"

\* MakefileBuild with a default: a name that is not declared builds the
\* first target of the file instead of failing
MakefileBuildFirstTarget ==
    /\ pc = "build"
    /\ LET found == get_target(makefile, target)
           t == IF found = 0 /\ makefile # <<>> THEN 1 ELSE found
       IN  IF t = 0
           THEN /\ result' = Res("FailedToFindTargetToBuild", target, "", "")
                /\ pc' = "return"
                /\ UNCHANGED <<stack, log>>
           ELSE /\ stack' = <<Frame(t, 1)>>
                /\ log' = Append(log, Event("visit", Frame(t, 1)))
                /\ pc' = "walk"
                /\ result' = result
    /\ UNCHANGED <<source, target, print_targets, makefile, procs, fs, now,
                   exit>>

\* Makefile::build: look the requested target up and build it
MakefileBuild ==
    /\ pc = "build"
    /\ LET t == get_target(makefile, target)
       IN  IF t = 0
           THEN /\ result' = Res("FailedToFindTargetToBuild", target, "", "")
                /\ pc' = "return"
                /\ UNCHANGED <<stack, log>>
           ELSE /\ stack' = <<Frame(t, 1)>>
                /\ log' = Append(log, Event("visit", Frame(t, 1)))
                /\ pc' = "walk"
                /\ result' = result
    /\ UNCHANGED <<source, target, print_targets, makefile, procs, fs, now,
                   exit>>

\* BuildDependency without the recursive call: a resolved dependency is
\* passed over unbuilt
BuildDependencyUnbuilt ==
    /\ pc = "walk"
    /\ Top.at = "deps"
    /\ Top.dep <= Len(makefile[Top.t].target_dependencies)
    /\ LET self == makefile[Top.t]
           dep == self.target_dependencies[Top.dep]
           d == get_target(makefile, dep)
       IN  IF d = 0
           THEN Raise(Res("FailedToFindTargetForDependency", self.name, dep,
                          ""), Top)
           ELSE /\ stack' = SetTop([Top EXCEPT !.dep = @ + 1])
                /\ UNCHANGED <<pc, result, log>>
    /\ UNCHANGED <<source, target, print_targets, makefile, procs, fs, now,
                   exit>>

\* BuildDependency passing over a name that does not resolve: the loop goes
\* on to the next dependency
BuildDependencySkipsMissing ==
    /\ pc = "walk"
    /\ Top.at = "deps"
    /\ Top.dep <= Len(makefile[Top.t].target_dependencies)
    /\ LET self == makefile[Top.t]
           dep == self.target_dependencies[Top.dep]
           d == get_target(makefile, dep)
       IN  IF d = 0
           THEN /\ stack' = SetTop([Top EXCEPT !.dep = @ + 1])
                /\ UNCHANGED <<pc, result, log>>
           ELSE /\ Len(stack) < MaxDepth
                /\ stack' = Append(stack, Frame(d, Visits + 1))
                /\ log' = Append(log, Event("visit", Frame(d, Visits + 1)))
                /\ UNCHANGED <<pc, result>>
    /\ UNCHANGED <<source, target, print_targets, makefile, procs, fs, now,
                   exit>>

\* BuildDependency with a visited-set: a dependency whose build returned
\* Ok(()) before in this run is not built again
BuildDependencyMemoized ==
    /\ pc = "walk"
    /\ Top.at = "deps"
    /\ Top.dep <= Len(makefile[Top.t].target_dependencies)
    /\ LET self == makefile[Top.t]
           dep == self.target_dependencies[Top.dep]
           d == get_target(makefile, dep)
       IN  IF d = 0
           THEN Raise(Res("FailedToFindTargetForDependency", self.name, dep,
                          ""), Top)
           ELSE IF \E i \in 1..Len(log) :
                      log[i].t = d /\ log[i].ev \in {"ok", "skip"}
           THEN /\ stack' = SetTop([Top EXCEPT !.dep = @ + 1])
                /\ UNCHANGED <<pc, result, log>>
           ELSE /\ Len(stack) < MaxDepth
                /\ stack' = Append(stack, Frame(d, Visits + 1))
                /\ log' = Append(log, Event("visit", Frame(d, Visits + 1)))
                /\ UNCHANGED <<pc, result>>
    /\ UNCHANGED <<source, target, print_targets, makefile, procs, fs, now,
                   exit>>

\* BuildDependency breaking cycles: a dependency whose build is under way
\* further up the stack is passed over
BuildDependencyOnceOnStack ==
    /\ pc = "walk"
    /\ Top.at = "deps"
    /\ Top.dep <= Len(makefile[Top.t].target_dependencies)
    /\ LET self == makefile[Top.t]
           dep == self.target_dependencies[Top.dep]
           d == get_target(makefile, dep)
       IN  IF d = 0
           THEN Raise(Res("FailedToFindTargetForDependency", self.name, dep,
                          ""), Top)
           ELSE IF \E n \in 1..Len(stack) : stack[n].t = d
           THEN /\ stack' = SetTop([Top EXCEPT !.dep = @ + 1])
                /\ UNCHANGED <<pc, result, log>>
           ELSE /\ Len(stack) < MaxDepth
                /\ stack' = Append(stack, Frame(d, Visits + 1))
                /\ log' = Append(log, Event("visit", Frame(d, Visits + 1)))
                /\ UNCHANGED <<pc, result>>
    /\ UNCHANGED <<source, target, print_targets, makefile, procs, fs, now,
                   exit>>

\* Target::build 113-124: the next target dependency
BuildDependency ==
    /\ pc = "walk"
    /\ Top.at = "deps"
    /\ Top.dep <= Len(makefile[Top.t].target_dependencies)
    /\ LET self == makefile[Top.t]
           dep == self.target_dependencies[Top.dep]
           d == get_target(makefile, dep)
       IN  IF d = 0
           THEN Raise(Res("FailedToFindTargetForDependency", self.name, dep,
                          ""), Top)
           ELSE /\ Len(stack) < MaxDepth
                /\ stack' = Append(stack, Frame(d, Visits + 1))
                /\ log' = Append(log, Event("visit", Frame(d, Visits + 1)))
                /\ UNCHANGED <<pc, result>>
    /\ UNCHANGED <<source, target, print_targets, makefile, procs, fs, now,
                   exit>>

\* Target::build returns Ok(()): Makefile::build returns it, or the caller
\* goes on to its next dependency
ReturnOk(ev) ==
    /\ log' = Append(log, Event(ev, Top))
    /\ IF Len(stack) = 1
       THEN /\ stack' = <<>>
            /\ result' = OkResult
            /\ pc' = "return"
       ELSE /\ stack' = [Pop EXCEPT ![Len(stack) - 1].dep = @ + 1]
            /\ UNCHANGED <<pc, result>>

\* CheckUpToDate without the test: the commands are run whatever
\* is_up_to_date says
CheckUpToDateAlwaysStale ==
    /\ pc = "walk"
    /\ Top.at = "deps"
    /\ Top.dep > Len(makefile[Top.t].target_dependencies)
    /\ stack' = SetTop([Top EXCEPT !.at = "spawn"])
    /\ UNCHANGED <<pc, result, log>>
    /\ UNCHANGED <<source, target, print_targets, makefile, procs, fs, now,
                   exit>>

\* Target::build 126-129: every dependency is built
CheckUpToDate ==
    /\ pc = "walk"
    /\ Top.at = "deps"
    /\ Top.dep > Len(makefile[Top.t].target_dependencies)
    /\ IF is_up_to_date(fs, makefile, makefile[Top.t])
       THEN ReturnOk("skip")
       ELSE /\ stack' = SetTop([Top EXCEPT !.at = "spawn"])
            /\ UNCHANGED <<pc, result, log>>
    /\ UNCHANGED <<source, target, print_targets, makefile, procs, fs, now,
                   exit>>

\* a std::process::Child of command line cmd, spawned by frame f.  Beside
\* the process itself the record keeps when it was spawned and when it
\* exited, as positions in log (exited_at is 0 while it runs)
Process(f, cmd, parts) ==
    [t |-> f.t, v |-> f.v, cmd |-> cmd, exe |-> Head(parts),
     args |-> Tail(parts), running |-> TRUE, code |-> NoCode,
     spawned_at |-> Len(log) + 1, exited_at |-> 0]

\* SpawnCommand with a spawn error passed over: the loop goes on to the
\* next command without a child
SpawnCommandLenient ==
    /\ pc = "walk"
    /\ Top.at = "spawn"
    /\ Top.cmd <= Len(makefile[Top.t].commands)
    /\ LET cmd == makefile[Top.t].commands[Top.cmd]
           parts == split_whitespace(cmd)
       IN  IF parts = <<>>
           THEN /\ stack' = SetTop([Top EXCEPT !.cmd = @ + 1])
                /\ UNCHANGED <<procs, log, pc, result>>
           ELSE \E spawned \in BOOLEAN :
                   IF spawned
                   THEN /\ procs' = Append(procs, Process(Top, cmd, parts))
                        /\ stack' = SetTop([Top EXCEPT
                               !.cmd = @ + 1,
                               !.children = Append(@, Len(procs) + 1)])
                        /\ log' = Append(log, Event("spawn", Top))
                        /\ UNCHANGED <<pc, result>>
                   ELSE /\ stack' = SetTop([Top EXCEPT !.cmd = @ + 1])
                        /\ UNCHANGED <<procs, log, pc, result>>
    /\ UNCHANGED <<source, target, print_targets, makefile, fs, now, exit>>

\* Target::build 133-149: one turn of the loop over the commands
SpawnCommand ==
    /\ pc = "walk"
    /\ Top.at = "spawn"
    /\ Top.cmd <= Len(makefile[Top.t].commands)
    /\ LET cmd == makefile[Top.t].commands[Top.cmd]
           parts == split_whitespace(cmd)
       IN  IF parts = <<>>
           THEN /\ stack' = SetTop([Top EXCEPT !.cmd = @ + 1])
                /\ UNCHANGED <<procs, log, pc, result>>
           ELSE \E spawned \in BOOLEAN :
                   IF spawned
                   THEN /\ procs' = Append(procs, Process(Top, cmd, parts))
                        /\ stack' = SetTop([Top EXCEPT
                               !.cmd = @ + 1,
                               !.children = Append(@, Len(procs) + 1)])
                        /\ log' = Append(log, Event("spawn", Top))
                        /\ UNCHANGED <<pc, result>>
                   ELSE /\ Raise(Res("FailedToSpawnProcess", "", "", cmd), Top)
                        /\ procs' = procs
    /\ UNCHANGED <<source, target, print_targets, makefile, fs, now, exit>>

\* StartWaiting without the waiting: the target returns Ok(()) as soon as
\* its commands are spawned
StartWaitingDetached ==
    /\ pc = "walk"
    /\ Top.at = "spawn"
    /\ Top.cmd > Len(makefile[Top.t].commands)
    /\ ReturnOk("ok")
    /\ UNCHANGED <<source, target, print_targets, makefile, procs, fs, now,
                   exit>>

\* Target::build 149-151: every command is spawned, the waiting starts
StartWaiting ==
    /\ pc = "walk"
    /\ Top.at = "spawn"
    /\ Top.cmd > Len(makefile[Top.t].commands)
    /\ stack' = SetTop([Top EXCEPT !.at = "wait"])
    /\ UNCHANGED <<source, target, print_targets, pc, makefile, procs, fs,
                   now, result, log, exit>>

\* WaitChild without the test of the exit code: a child that exited with a
\* code counts as done whatever the code
WaitChildAnyCode ==
    /\ pc = "walk"
    /\ Top.at = "wait"
    /\ Top.w <= Len(Top.children)
    /\ LET child == procs[Top.children[Top.w]]
       IN  \E waited \in BOOLEAN :
              IF ~waited
              THEN Raise(Res("BuildProcessFailedToStart", "", "", ""), Top)
              ELSE /\ ~child.running
                   /\ IF child.code = NoCode
                      THEN Raise(Res("FailedToGetChildExitCode", "", "", ""),
                                 Top)
                      ELSE /\ stack' = SetTop([Top EXCEPT !.w = @ + 1])
                           /\ UNCHANGED <<pc, result, log>>
    /\ UNCHANGED <<source, target, print_targets, makefile, procs, fs, now,
                   exit>>

\* Target::build 151-160: child.wait() on the next child, which returns
\* once that child has exited, or fails
WaitChild ==
    /\ pc = "walk"
    /\ Top.at = "wait"
    /\ Top.w <= Len(Top.children)
    /\ LET child == procs[Top.children[Top.w]]
       IN  \E waited \in BOOLEAN :
              IF ~waited
              THEN Raise(Res("BuildProcessFailedToStart", "", "", ""), Top)
              ELSE /\ ~child.running
                   /\ IF child.code = NoCode
                      THEN Raise(Res("FailedToGetChildExitCode", "", "", ""),
                                 Top)
                      ELSE IF child.code # 0
                      THEN Raise(Res("BuildProcessQuitWithNonZero", "", "",
                                     ""), Top)
                      ELSE /\ stack' = SetTop([Top EXCEPT !.w = @ + 1])
                           /\ UNCHANGED <<pc, result, log>>
    /\ UNCHANGED <<source, target, print_targets, makefile, procs, fs, now,
                   exit>>

\* FinishTarget with the end of the wait loop one child too far: it waits
\* for a child past the last one, which never comes
FinishTargetOneMore ==
    /\ pc = "walk"
    /\ Top.at = "wait"
    /\ Top.w > Len(Top.children) + 1
    /\ ReturnOk("ok")
    /\ UNCHANGED <<source, target, print_targets, makefile, procs, fs, now,
                   exit>>

\* Target::build 162-167: every child exited with code 0
FinishTarget ==
    /\ pc = "walk"
    /\ Top.at = "wait"
    /\ Top.w > Len(Top.children)
    /\ ReturnOk("ok")
    /\ UNCHANGED <<source, target, print_targets, makefile, procs, fs, now,
                   exit>>

(***************************************************************************)
(* The environment: a spawned process runs beside the program and exits    *)
(* with a code, or by a signal; it may have written its target's outputs.  *)
(***************************************************************************)
ExitCodes == {0, 1, NoCode}

ProcessExit(p, code, wrote) ==
    /\ procs[p].running
    /\ procs' = [procs EXCEPT ![p].running = FALSE, ![p].code = code,
                               ![p].exited_at = Len(log)]
    /\ IF wrote
       THEN /\ now < MaxTime
            /\ now' = now + 1
            /\ fs' = [path \in DOMAIN fs |->
                        IF path \in Range(makefile[procs[p].t].outputs)
                        THEN now + 1 ELSE fs[path]]
       ELSE UNCHANGED <<fs, now>>
    /\ UNCHANGED <<source, target, print_targets, pc, makefile, stack, result,
                   log, exit>>

Next ==
    \/ Parse
    \/ ListTargets
    \/ MakefileBuild
    \/ BuildDependency
    \/ CheckUpToDate
    \/ SpawnCommand
    \/ StartWaiting
    \/ WaitChild
    \/ FinishTarget
    \/ MainReturn
    \/ \E p \in 1..Len(procs), code \in ExitCodes, wrote \in BOOLEAN :
          ProcessExit(p, code, wrote)

Spec == Init /\ [][Next]_vars

\* the one control thread: main and the calls it makes
Program ==
    \/ Parse
    \/ ListTargets
    \/ MakefileBuild
    \/ BuildDependency
    \/ CheckUpToDate
    \/ SpawnCommand
    \/ StartWaiting
    \/ WaitChild
    \/ FinishTarget
    \/ MainReturn

\* the control thread runs while it can (it blocks in child.wait() alone),
\* and a process that runs comes to exit
FairSpec ==
    /\ Spec
    /\ WF_vars(Program)
    /\ WF_vars(\E p \in 1..Len(procs), code \in ExitCodes, wrote \in BOOLEAN :
                  ProcessExit(p, code, wrote))

(***************************************************************************)
(* What the claims are stated with.                                        *)
(***************************************************************************)
TargetIds == 1..Len(makefile)

\* the targets the names in t's target_dependencies resolve to
Dependencies(t) ==
    {get_target(makefile, makefile[t].target_dependencies[k]) :
        k \in 1..Len(makefile[t].target_dependencies)} \ {0}

\* the positions in log of the spawns of t's commands
SpawnsOf(t) == {i \in 1..Len(log) : log[i].ev = "spawn" /\ log[i].t = t}

\* a build of t returned Ok(()) before position i of log
ReturnedBefore(t, i) ==
    \E j \in 1..(i - 1) : log[j].t = t /\ log[j].ev \in {"ok", "skip"}

\* a depends on b alone, b on c alone, c on no target
LinearChain(a, b, c) ==
    /\ Len(makefile[a].target_dependencies) = 1 /\ Dependencies(a) = {b}
    /\ Len(makefile[b].target_dependencies) = 1 /\ Dependencies(b) = {c}
    /\ makefile[c].target_dependencies = <<>>
    /\ Cardinality({a, b, c}) = 3

\* the command lines of the processes spawned so far, in spawn order
SpawnedCommands == [p \in 1..Len(procs) |-> procs[p].cmd]

NoSkip == \A i \in 1..Len(log) : log[i].ev # "skip"

(***************************************************************************)
(* C1.  Dependency ordering: for targets A depending on B depending on C,  *)
(* no command of A is spawned before a build of B and a build of C have    *)
(* returned success, and none of B before a build of C has; when A depends *)
(* on B alone and B on C alone, every spawn of C comes before every spawn  *)
(* of B and those before every spawn of A, and a successful build of A     *)
(* with all three stale has run C's commands, then B's, then A's.          *)
(***************************************************************************)
C1_DependencyOrder ==
    \A a \in TargetIds : \A b \in Dependencies(a) : \A c \in Dependencies(b) :
        /\ \A i \in SpawnsOf(a) : ReturnedBefore(b, i) /\ ReturnedBefore(c, i)
        /\ \A i \in SpawnsOf(b) : ReturnedBefore(c, i)
        /\ LinearChain(a, b, c) =>
              /\ \A i \in SpawnsOf(c), j \in SpawnsOf(b), k \in SpawnsOf(a) :
                    i < j /\ j < k
              /\ (makefile[a].name = target /\ result.kind = "Ok" /\ NoSkip) =>
                    SpawnedCommands = makefile[c].commands
                        \o makefile[b].commands \o makefile[a].commands

\* a chain of three stale targets, built to the end
C1_Witness ==
    \E a \in TargetIds : \E b \in Dependencies(a) : \E c \in Dependencies(b) :
        /\ LinearChain(a, b, c)
        /\ makefile[a].name = target /\ result.kind = "Ok" /\ NoSkip
        /\ SpawnsOf(a) # {} /\ SpawnsOf(b) # {} /\ SpawnsOf(c) # {}


\* the processes that exited with a code other than 0
FailedProcs ==
    {p \in 1..Len(procs) :
        ~procs[p].running /\ procs[p].code \notin {0, NoCode}}

(***************************************************************************)
(* C2.  A non-zero exit aborts the build: once a process has exited with a *)
(* non-zero code, the only processes spawned afterwards belong to the same *)
(* invocation of Target::build (the commands of the same target that were  *)
(* not yet spawned), never to a target visited later, and Makefile::build  *)
(* does not return Ok: when it has returned, it returned an error.         *)
(***************************************************************************)
C2_NonZeroExitAborts ==
    \A p \in FailedProcs :
        /\ \A q \in 1..Len(procs) :
              procs[q].spawned_at > procs[p].exited_at =>
                  procs[q].v = procs[p].v
        /\ result.kind # "Ok"
        /\ pc \in {"return", "done"} => result.kind # "none"

\* a command of the first dependency of main exited non-zero and the
\* program came to its end
C2_Witness ==
    /\ source = SrcSiblings /\ target = "main" /\ pc = "done"
    /\ \E p \in FailedProcs : makefile[procs[p].t].name = "a"
    /\ result.kind = "BuildProcessQuitWithNonZero"


\* the processes the v-th invocation of Target::build spawned, in order
ProcsOf(v) == SelectSeq(procs, LAMBDA x : x.v = v)

CommandsOf(ps) == [k \in 1..Len(ps) |-> ps[k].cmd]

\* the invocation of Target::build that returned the error, when one did
ErrorEvent == log[Len(log)]

(***************************************************************************)
(* C3.  A stale target's build returns success only if every one of its    *)
(* commands was spawned and every spawned process exited with code 0.  An  *)
(* error of a Target::build is the last thing the walk does: it is what    *)
(* Makefile::build returns, and it is the variant of its cause (a command  *)
(* that was not spawned, a child without an exit code, a child with a      *)
(* non-zero code).                                                         *)
(***************************************************************************)
C3_SuccessOnlyIfAllZero ==
    /\ \A i \in 1..Len(log) :
          log[i].ev = "ok" =>
              LET ps == ProcsOf(log[i].v)
              IN  /\ CommandsOf(ps) = makefile[log[i].t].commands
                  /\ \A k \in 1..Len(ps) : ~ps[k].running /\ ps[k].code = 0
    /\ \A i \in 1..Len(log) :
          log[i].ev = "err" =>
              /\ i = Len(log)
              /\ stack = <<>>
              /\ result.kind \notin {"none", "Ok"}
    /\ result.kind = "FailedToSpawnProcess" =>
          LET ps == ProcsOf(ErrorEvent.v)
              cmds == makefile[ErrorEvent.t].commands
          IN  /\ Len(ps) < Len(cmds)
              /\ result.cmd = cmds[Len(ps) + 1]
    /\ result.kind = "FailedToGetChildExitCode" =>
          \E p \in 1..Len(procs) :
              /\ procs[p].v = ErrorEvent.v
              /\ ~procs[p].running /\ procs[p].code = NoCode
    /\ result.kind = "BuildProcessQuitWithNonZero" =>
          \E p \in FailedProcs : procs[p].v = ErrorEvent.v
    /\ result.kind = "Ok" =>
          \A p \in 1..Len(procs) : ~procs[p].running /\ procs[p].code = 0

\* a target with two commands was built with success
C3_Witness ==
    \E i \in 1..Len(log) :
        /\ log[i].ev = "ok"
        /\ Len(makefile[log[i].t].commands) = 2
        /\ Len(ProcsOf(log[i].v)) = 2


\* the modification times of t's declared outputs, NoTime for an absent one
OutputTimes(t) == {modified(fs, o) : o \in Range(makefile[t].outputs)}

\* t declares an output and every declared output exists
AllOutputsExist(t) == makefile[t].outputs # <<>> /\ NoTime \notin OutputTimes(t)

\* the earliest output time of a t whose outputs all exist
Earliest(t) == CHOOSE m \in OutputTimes(t) : \A x \in OutputTimes(t) : m <= x

(***************************************************************************)
(* C4.  Staleness against timestamps: for a target T whose outputs all     *)
(* exist, is_up_to_date(T) is true when every file dependency exists and   *)
(* is no newer than the earliest output of T and every target dependency   *)
(* resolves, has all its outputs, and its earliest output is no newer than *)
(* T's; it is false when a file dependency, or the earliest output of a    *)
(* target dependency, is strictly newer than the earliest output of T.     *)
(***************************************************************************)
C4_StalenessByTimestamps ==
    \A t \in TargetIds :
        AllOutputsExist(t) =>
            LET files == Range(makefile[t].file_dependencies)
                names == Range(makefile[t].target_dependencies)
            IN  /\ ( /\ \A f \in files :
                          /\ modified(fs, f) # NoTime
                          /\ modified(fs, f) <= Earliest(t)
                     /\ \A n \in names :
                          LET d == get_target(makefile, n)
                          IN  /\ d # 0
                              /\ AllOutputsExist(d)
                              /\ Earliest(d) <= Earliest(t) )
                   => is_up_to_date(fs, makefile, makefile[t])
                /\ ( \/ \E f \in files :
                          /\ modified(fs, f) # NoTime
                          /\ modified(fs, f) > Earliest(t)
                     \/ \E n \in names :
                          LET d == get_target(makefile, n)
                          IN  /\ d # 0
                              /\ AllOutputsExist(d)
                              /\ Earliest(d) > Earliest(t) )
                   => ~is_up_to_date(fs, makefile, makefile[t])

\* the build found a target with file and target dependencies up to date,
\* one of its file dependencies being exactly as old as its output
C4_Witness ==
    \E i \in 1..Len(log) :
        /\ log[i].ev = "skip"
        /\ makefile[log[i].t].target_dependencies # <<>>
        /\ \E f \in Range(makefile[log[i].t].file_dependencies) :
              modified(fs, f) = Earliest(log[i].t)


(***************************************************************************)
(* C5.  is_up_to_date(T) is false whenever a declared output of T is       *)
(* absent, whatever the other outputs and the dependencies are; so a build *)
(* that reaches such a target never skips it: every target the walk found  *)
(* up to date has all its declared outputs.                                *)
(***************************************************************************)
C5_AbsentOutputIsStale ==
    /\ \A t \in TargetIds :
          NoTime \in OutputTimes(t) =>
              ~is_up_to_date(fs, makefile, makefile[t])
    /\ \A i \in 1..Len(log) :
          log[i].ev = "skip" => NoTime \notin OutputTimes(log[i].t)

\* the commands of a target were spawned that has one output and lacks
\* another, its file dependency being no newer than the output it has
C5_Witness ==
    \E i \in 1..Len(log) :
        /\ log[i].ev = "spawn"
        /\ NoTime \in OutputTimes(log[i].t)
        /\ \E m \in OutputTimes(log[i].t) :
              /\ m # NoTime
              /\ \A f \in Range(makefile[log[i].t].file_dependencies) :
                    modified(fs, f) # NoTime /\ modified(fs, f) <= m


\* the position in log where the v-th invocation of Target::build began
VisitIndex(v) ==
    CHOOSE i \in 1..Len(log) : log[i].ev = "visit" /\ log[i].v = v

\* between the start of invocation log[i].v and position i of log, a build
\* of each of the target dependencies of its target returned Ok(())
DependenciesBuiltBefore(i) ==
    LET names == makefile[log[i].t].target_dependencies
    IN  \A k \in 1..Len(names) :
            \E j \in (VisitIndex(log[i].v) + 1)..(i - 1) :
                /\ log[j].ev \in {"ok", "skip"}
                /\ log[j].t = get_target(makefile, names[k])

(***************************************************************************)
(* C6.  Skip of an up-to-date target: Target::build decides staleness only *)
(* after a build of every target dependency has returned success (whether  *)
(* it then skips, spawns or returns); a build that skipped did so with     *)
(* is_up_to_date true and spawned no process, and a build that goes on to  *)
(* spawn does so with is_up_to_date false.                                 *)
(***************************************************************************)
C6_SkipWhenUpToDate ==
    /\ \A i \in 1..Len(log) :
          log[i].ev \in {"skip", "spawn", "ok"} => DependenciesBuiltBefore(i)
    /\ \A i \in 1..Len(log) :
          log[i].ev = "skip" => ProcsOf(log[i].v) = <<>>
    /\ (log # <<>> /\ log[Len(log)].ev = "skip") =>
          is_up_to_date(fs, makefile, makefile[log[Len(log)].t])
    /\ \A k \in 1..Len(stack) :
          stack[k].at # "deps" =>
              stack[k].dep > Len(makefile[stack[k].t].target_dependencies)
    /\ (stack # <<>> /\ Top.at = "spawn" /\ Top.children = <<>>) =>
          ~is_up_to_date(fs, makefile, makefile[Top.t])

\* a target was skipped after a dependency of it had run its commands
C6_Witness ==
    \E i \in 1..Len(log) :
        /\ log[i].ev = "skip"
        /\ \E j \in (VisitIndex(log[i].v) + 1)..(i - 1) :
              /\ log[j].ev = "ok"
              /\ log[j].t \in Dependencies(log[i].t)
              /\ ProcsOf(log[j].v) # <<>>


\* the names of the parsed targets, in parse order
TargetNames == [t \in TargetIds |-> makefile[t].name]

(***************************************************************************)
(* C7.  End to end: the source SrcEndToEnd parses to the two targets a and *)
(* main, and building main, both targets being stale, runs `echo build-a`  *)
(* then `echo build-main` and finds both targets: the build does not fail  *)
(* for a target that is not there, and when it returns Ok the commands it  *)
(* spawned are those two, in that order.                                   *)
(***************************************************************************)
C7_EndToEnd ==
    source = SrcEndToEnd =>
        /\ pc # "parse" => TargetNames = <<"a", "main">>
        /\ (target = "main" /\ ~print_targets /\ pc = "done") =>
              /\ result.kind \notin {"FailedToFindTargetToBuild",
                                     "FailedToFindTargetForDependency"}
              /\ (result.kind = "Ok" /\ NoSkip) =>
                    SpawnedCommands = <<"echo build-a", "echo build-main">>

(***************************************************************************)
(* C8.  Parsing is all-or-nothing: a source with a malformed declaration,  *)
(* wherever it is, makes the parse fail with an error and yields no        *)
(* target.                                                                 *)
(***************************************************************************)
C8_ParseAllOrNothing ==
    (source \in MalformedSources /\ pc # "parse") =>
        /\ exit = "FailedToParseBuildFile"
        /\ makefile = <<>>

\* sub occurs in s
Contains(s, sub) ==
    \E k \in 1..(Len(s) - Len(sub) + 1) : SubSeq(s, k, k + Len(sub) - 1) = sub

\* the source declares target name with an outputs clause
HasOutputsClause(name) == Contains(source, "target " \o name \o " outputs(")

(***************************************************************************)
(* C9.  Every target parsed from a declaration without an outputs clause   *)
(* has exactly its own name as its outputs.                                *)
(***************************************************************************)
C9_DefaultOutputs ==
    \A t \in TargetIds :
        ~HasOutputsClause(makefile[t].name) =>
            makefile[t].outputs = <<makefile[t].name>>

\* three declarations without an outputs clause were parsed
C9_Witness ==
    /\ source = SrcChain /\ pc # "parse"
    /\ TargetNames = <<"c", "b", "main">>
    /\ \A t \in TargetIds : ~HasOutputsClause(makefile[t].name)

(***************************************************************************)
(* C10.  The outputs of a parsed target are never empty, an explicit       *)
(* clause without entries (`outputs()`) included.                          *)
(***************************************************************************)
C10_OutputsNeverEmpty ==
    \A t \in TargetIds : makefile[t].outputs # <<>>


\* no parsed target has the requested name
Undeclared == \A t \in TargetIds : makefile[t].name # target

(***************************************************************************)
(* C11.  Building a target name that is not declared in the Makefile fails *)
(* with FailedToFindTargetToBuild carrying that name: once Makefile::build *)
(* has been called with such a name its result is that error, no           *)
(* Target::build was entered, no dependency walked and no process spawned; *)
(* and that error is returned for no other request.                        *)
(***************************************************************************)
C11_MissingRootTarget ==
    /\ (Undeclared /\ pc \in {"return", "done"} /\ result.kind # "none") =>
          /\ result = Res("FailedToFindTargetToBuild", target, "", "")
          /\ log = <<>> /\ procs = <<>> /\ stack = <<>>
    /\ (Undeclared /\ pc \in {"walk", "return"}) =>
          /\ pc = "return"
          /\ result.kind = "FailedToFindTargetToBuild"
    /\ result.kind = "FailedToFindTargetToBuild" => Undeclared

\* a file with three targets was asked for a name none of them has
C11_Witness ==
    /\ Len(makefile) = 3 /\ target = "missing" /\ pc = "done"
    /\ result = Res("FailedToFindTargetToBuild", "missing", "", "")

\* the positions in t's target_dependencies of the names that do not resolve
Unresolved(t) ==
    {k \in 1..Len(makefile[t].target_dependencies) :
        get_target(makefile, makefile[t].target_dependencies[k]) = 0}

\* the first of them
FirstUnresolved(t) ==
    CHOOSE k \in Unresolved(t) : \A j \in Unresolved(t) : k <= j

\* a build of the target named name returned Ok(()) at position j of log
ReturnedAt(name, j) ==
    log[j].ev \in {"ok", "skip"} /\ log[j].t = get_target(makefile, name)

(***************************************************************************)
(* C12.  Unresolved dependency: when the k-th name in T's target           *)
(* dependencies is the first that resolves to no target, no build of T     *)
(* gets past it: T spawns no command and never returns Ok, and its walk    *)
(* never stands beyond the k-th dependency.  When the build of T fails, it *)
(* fails with FailedToFindTargetForDependency naming T and that name; by   *)
(* then a build of each dependency before the k-th has returned Ok, in the *)
(* declared order, and no dependency after the k-th was entered by this    *)
(* build of T.                                                             *)
(***************************************************************************)
C12_UnresolvedDependency ==
    \A t \in TargetIds :
        Unresolved(t) # {} =>
            LET names == makefile[t].target_dependencies
                k == FirstUnresolved(t)
            IN  /\ SpawnsOf(t) = {}
                /\ \A i \in 1..Len(log) :
                      log[i].t = t => log[i].ev \in {"visit", "err"}
                /\ \A n \in 1..Len(stack) :
                      stack[n].t = t =>
                          stack[n].at = "deps" /\ stack[n].dep <= k
                /\ \A i \in 1..Len(log) :
                      (log[i].t = t /\ log[i].ev = "err") =>
                          LET from == VisitIndex(log[i].v)
                          IN  /\ result = Res("FailedToFindTargetForDependency",
                                              makefile[t].name, names[k], "")
                              /\ \A j \in 1..(k - 1) :
                                    \E p \in (from + 1)..(i - 1) :
                                        /\ ReturnedAt(names[j], p)
                                        /\ j > 1 =>
                                              \E q \in (from + 1)..(p - 1) :
                                                  ReturnedAt(names[j - 1], q)
                              /\ \A j \in (k + 1)..Len(names) :
                                    \A p \in (from + 1)..i :
                                        ~( /\ log[p].ev = "visit"
                                           /\ log[p].t =
                                                get_target(makefile, names[j]) )

\* main names a, then a target that is not there, then b: the commands of
\* a were run before the build failed
C12_Witness ==
    /\ source = SrcMissingDep /\ target = "main" /\ pc = "done"
    /\ result = Res("FailedToFindTargetForDependency", "main", "zz", "")
    /\ \E p \in 1..Len(procs) : makefile[procs[p].t].name = "a"
    /\ \A p \in 1..Len(procs) : makefile[procs[p].t].name # "b"

\* in every frame of Target::build the waiting starts after the last
\* command was spawned: no child was awaited while a command was left
SpawnAllThenWaitAll ==
    \A n \in 1..Len(stack) :
        /\ stack[n].at = "wait" =>
              stack[n].cmd > Len(makefile[stack[n].t].commands)
        /\ stack[n].at # "wait" => stack[n].w = 1

\* every process of the invocation of Target::build that returned at
\* position i of log had exited by then
ExitedBeforeReturn(i) ==
    \A p \in 1..Len(procs) :
        procs[p].v = log[i].v =>
            ~procs[p].running /\ procs[p].exited_at < i

(***************************************************************************)
(* C13.  Spawn-all-then-wait-all: every command of a target is spawned    *)
(* before any of its processes is awaited, and Target::build does not      *)
(* return, with success or with an error, until every process it spawned   *)
(* for that target has exited.                                             *)
(***************************************************************************)
C13_ReturnsAfterEveryExit ==
    /\ SpawnAllThenWaitAll
    /\ \A i \in 1..Len(log) :
          log[i].ev \in {"ok", "skip", "err"} => ExitedBeforeReturn(i)

(***************************************************************************)
(* C14.  No build error is silently discarded: whenever Makefile::build    *)
(* returned an error for the requested target, main does not finish with   *)
(* a success result.                                                       *)
(***************************************************************************)
C14_BuildErrorReported ==
    (pc = "done" /\ result.kind \notin {"none", "Ok"}) => exit # "Ok"

\* the processes that were spawned and have not exited
Running == {p \in 1..Len(procs) : procs[p].running}

(***************************************************************************)
(* C15.  No cross-target parallelism: the processes that are spawned and   *)
(* have not exited all belong to one invocation of Target::build, so to    *)
(* the command list of one target; and when a process of one invocation is *)
(* spawned, every process spawned earlier by another invocation has        *)
(* exited.                                                                 *)
(***************************************************************************)
C15_NoCrossTargetParallelism ==
    /\ \A p, q \in Running :
          procs[p].v = procs[q].v /\ procs[p].t = procs[q].t
    /\ \A p, q \in 1..Len(procs) :
          (p < q /\ procs[p].v # procs[q].v) =>
              /\ ~procs[p].running
              /\ procs[p].exited_at < procs[q].spawned_at

\* the two processes of one target ran at the same time, and a process of
\* its sibling was spawned after both had exited
C15_Witness ==
    \E p, q, r \in 1..Len(procs) :
        /\ p < q /\ q < r
        /\ procs[p].v = procs[q].v /\ procs[r].v # procs[q].v
        /\ procs[p].exited_at >= procs[q].spawned_at
        /\ procs[r].t # procs[q].t
        /\ procs[r].running

(***************************************************************************)
(* C16.  Whenever is_up_to_date(T) is true, every declared output of T is  *)
(* at least as new as every file dependency of T and as every declared     *)
(* output of every target dependency of T, not only as the oldest output   *)
(* of each dependency.                                                     *)
(***************************************************************************)
C16_NewerThanEveryDependencyOutput ==
    \A t \in TargetIds :
        is_up_to_date(fs, makefile, makefile[t]) =>
            \A o \in Range(makefile[t].outputs) :
                /\ \A f \in Range(makefile[t].file_dependencies) :
                      modified(fs, f) <= modified(fs, o)
                /\ \A d \in Dependencies(t) :
                      \A od \in Range(makefile[d].outputs) :
                          modified(fs, od) <= modified(fs, o)

RECURSIVE PathsVia(_, _, _, _)

\* the number of dependency paths from target from to target to, of at
\* most fuel edges
Paths(from, to, fuel) ==
    IF from = 0 THEN 0
    ELSE IF from = to THEN 1
    ELSE IF fuel = 0 THEN 0
    ELSE PathsVia(makefile[from].target_dependencies, 1, to, fuel - 1)

\* those that leave through the k-th or a later name of names
PathsVia(names, k, to, fuel) ==
    IF k > Len(names) THEN 0
    ELSE Paths(get_target(makefile, names[k]), to, fuel)
            + PathsVia(names, k + 1, to, fuel)

\* the invocations of Target::build on t so far
VisitsOf(t) == {i \in 1..Len(log) : log[i].ev = "visit" /\ log[i].t = t}

(***************************************************************************)
(* C17.  No memoization: when Makefile::build has returned Ok, a target    *)
(* reachable from the requested target through n dependency paths was      *)
(* visited exactly n times, each visit ended either skipped or with all of *)
(* the target's commands spawned anew; and a target whose visit finds it   *)
(* stale gets its commands spawned whatever earlier visits did.            *)
(***************************************************************************)
C17_NoMemoization ==
    /\ result.kind = "Ok" =>
          \A t \in TargetIds :
              /\ Cardinality(VisitsOf(t)) =
                    Paths(get_target(makefile, target), t, MaxDepth)
              /\ \A i \in VisitsOf(t) :
                    \E j \in (i + 1)..Len(log) :
                        /\ log[j].v = log[i].v
                        /\ \/ log[j].ev = "skip"
                           \/ /\ log[j].ev = "ok"
                              /\ CommandsOf(ProcsOf(log[i].v)) =
                                    makefile[t].commands
    /\ \A n \in 1..Len(stack) :
          stack[n].at = "wait" =>
              CommandsOf(ProcsOf(stack[n].v)) = makefile[stack[n].t].commands

\* the target at the bottom of a diamond was visited along both paths of a
\* successful build and its command was run on both visits
C17_Witness ==
    /\ source = SrcDiamond /\ target = "main" /\ result.kind = "Ok"
    /\ \E t \in TargetIds :
          /\ makefile[t].name = "d"
          /\ Cardinality(VisitsOf(t)) = 2
          /\ Cardinality(SpawnsOf(t)) = 2

RECURSIVE ReachIn(_, _)

\* the targets within n dependency edges of a target of S, S included
ReachIn(S, n) ==
    IF n = 0 THEN S
    ELSE ReachIn(S \cup UNION {Dependencies(t) : t \in S}, n - 1)

\* the targets t depends on, directly or not
Descendants(t) == ReachIn(Dependencies(t), Len(makefile))

OnCycle(t) == t \in Descendants(t)

\* the requested target, 0 when it is not declared
Root == get_target(makefile, target)

\* the walk from the requested target comes to a target that lies on a
\* cycle of target_dependencies
ReachesCycle ==
    Root # 0 /\ \E t \in {Root} \cup Descendants(Root) : OnCycle(t)

(***************************************************************************)
(* C18.  Termination: when the target_dependencies graph reachable from    *)
(* the requested target is acyclic and every spawned process eventually    *)
(* exits, a call of Makefile::build eventually returns, with success or    *)
(* with a build error.                                                     *)
(***************************************************************************)
C18_Termination ==
    (pc = "build" /\ ~ReachesCycle) ~> (pc = "return" /\ result.kind # "none")

\* the build of the diamond returned success after its five visits had
\* each run a process to its end
C18_Witness ==
    /\ source = SrcDiamond /\ target = "main" /\ ~ReachesCycle
    /\ pc = "return" /\ result.kind = "Ok"
    /\ Len(procs) = 5 /\ Running = {}

\* the walk has gone once round a cycle: a target on a cycle was entered
\* again (its first invocation has not returned, see C19_CycleNeverLeft)
CycleEntered ==
    \E t \in TargetIds : OnCycle(t) /\ Cardinality(VisitsOf(t)) >= 2

\* no command of a target on a cycle was spawned, and no build of such a
\* target returned Ok(())
NoCycleTargetBuilt ==
    \A t \in TargetIds :
        OnCycle(t) =>
            /\ SpawnsOf(t) = {}
            /\ \A i \in 1..Len(log) :
                  log[i].t = t => log[i].ev \in {"visit", "err"}

(***************************************************************************)
(* C19.  Dependency cycles are not detected: when the requested target     *)
(* reaches a cycle in target_dependencies and no build error occurs before *)
(* the cycle is entered, the build never returns, and no command of a      *)
(* target that lies on the cycle is ever spawned.                          *)
(***************************************************************************)
C19_NeverReturnsOnceEntered ==
    (ReachesCycle /\ CycleEntered) =>
        /\ result.kind = "none"
        /\ NoCycleTargetBuilt

(***************************************************************************)
(* C19, amended.  When the requested target reaches a cycle, the build     *)
(* never returns Ok and no command of a target on the cycle is ever        *)
(* spawned: no build of a target on the cycle gets past its dependency     *)
(* loop.  The build returns only with a build error, which can also occur  *)
(* after the cycle has been entered: raised by a target off the cycle that *)
(* is built again on every turn, or for a name that does not resolve.      *)
(* When every target in reach lies on the cycle and every name resolves,   *)
(* the build never returns and spawns nothing.                             *)
(***************************************************************************)
C19_CycleNeverLeft ==
    ReachesCycle =>
        /\ result.kind # "Ok"
        /\ NoCycleTargetBuilt
        /\ \A n \in 1..Len(stack) :
              OnCycle(stack[n].t) => stack[n].at = "deps"
        /\ result.kind # "none" =>
              /\ log # <<>> /\ ErrorEvent.ev = "err"
              /\ \/ ~OnCycle(ErrorEvent.t)
                 \/ result.kind = "FailedToFindTargetForDependency"
        /\ (\A t \in {Root} \cup Descendants(Root) :
                OnCycle(t) /\ Unresolved(t) = {}) =>
              result.kind = "none" /\ procs = <<>>

\* the walk went round the cycle of main and a and stands in main again,
\* nothing spawned
C19_Witness ==
    /\ source = SrcCycle /\ target = "main" /\ CycleEntered
    /\ Len(stack) >= 3 /\ stack[1].t = stack[3].t
    /\ procs = <<>> /\ result.kind = "none"

====
